---- MODULE Spec2Model ----
(***************************************************************************)
(* Model of bookkeeper's SqliteRepository                                  *)
(* (bookkeeper/repository/sqlite_repository.py): one table of one model    *)
(* class in a SQLite file, driven through the five operations add, get,    *)
(* get_all, update and delete.                                             *)
(***************************************************************************)
EXTENDS Integers, Sequences, FiniteSets, TLC

(***************************************************************************)
(* Bounds.                                                                 *)
(***************************************************************************)
\* add is disabled once the next rowid SQLite would assign exceeds this
MaxPk == 2

(***************************************************************************)
(* Values.  A Python value and a SQLite cell are records of one layout:    *)
(* k is the runtime type, n an integer payload, s a text (a sequence of    *)
(* tokens), l a list payload.  sqlite3 binds None, int and str to NULL,    *)
(* INTEGER and TEXT and reads them back as the same Python values, so a    *)
(* cell is written as the None, int or str it binds from.                  *)
(***************************************************************************)
Mk(k, n, s, l) == [k |-> k, n |-> n, s |-> s, l |-> l]

PyNone == Mk("None", 0, <<>>, <<>>)

PyInt(n) == Mk("int", n, <<>>, <<>>)

PyStr(s) == Mk("str", 0, s, <<>>)

PyList(l) == Mk("list", 0, <<>>, l)

\* a set of small integers
PySet(l) == Mk("set", 0, <<>>, l)

\* datetime(2023, 1, d, 12, 0, 0, us)
PyDatetime(d, us) == Mk("datetime", 0, <<>>, <<d, us>>)

\* marks an attribute that is not in the instance's own __dict__
ABSENT == Mk("ABSENT", 0, <<>>, <<>>)

Digits == <<"0", "1", "2", "3", "4", "5", "6", "7", "8", "9">>

IsDigit(tok) == \E i \in 1..10 : Digits[i] = tok

DigitOf(tok) == (CHOOSE i \in 1..10 : Digits[i] = tok) - 1

\* datetime.isoformat(): the microseconds are written only when non-zero
isoformat(v) ==
    <<"2023-01-0", Digits[v.l[1] + 1], "T12:00:00">>
        \o (IF v.l[2] = 0 THEN <<>> ELSE <<".00000", Digits[v.l[2] + 1]>>)

\* datetime.fromisoformat() on the texts isoformat() writes
fromisoformat(s) ==
    PyDatetime(DigitOf(s[2]), IF Len(s) = 5 THEN DigitOf(s[5]) ELSE 0)

RECURSIVE json_items(_)
json_items(l) ==
    IF l = <<>> THEN <<>>
    ELSE IF Len(l) = 1 THEN <<Digits[l[1] + 1]>>
    ELSE <<Digits[l[1] + 1], ", ">> \o json_items(Tail(l))

\* json.dumps raises TypeError ("Object of type set is not JSON
\* serializable") for a value its encoder has no rule for
json_dumps_raises(v) == v.k \in {"set", "datetime"}

\* json.dumps of a list of small integers
json_dumps(v) == <<"[">> \o json_items(v.l) \o <<"]">>

\* whether json.loads accepts the text (a number, or a list of numbers)
json_parses(s) ==
    \/ Len(s) = 1 /\ IsDigit(s[1])
    \/ /\ Len(s) >= 2 /\ s[1] = "[" /\ s[Len(s)] = "]"
       /\ \/ Len(s) = 2
          \/ /\ Len(s) % 2 = 1
             /\ \A i \in 2..(Len(s) - 1) :
                    IF i % 2 = 0 THEN IsDigit(s[i]) ELSE s[i] = ", "

\* json.loads of a text json_parses accepts
json_loads(s) ==
    IF Len(s) = 1 THEN PyInt(DigitOf(s[1]))
    ELSE PyList([i \in 1..((Len(s) - 1) \div 2) |-> DigitOf(s[2 * i])])

(***************************************************************************)
(* Model classes (shapes).  The repository is generic over model_class;    *)
(* these are the classes it is constructed with here.                      *)
(*   Category  dataclass: name: str, parent: int | None, pk: int           *)
(*   Custom    the tests' plain class: class attributes pk = 0, name = '', *)
(*             test = '' and no annotations; an instance's __dict__ holds  *)
(*             only the attributes assigned on it                          *)
(*   Budget    dataclass: pk, date: datetime, three int amounts            *)
(*   Tagged    a dataclass with two non-primitive attributes, one          *)
(*             annotated list[int] and one annotated list                  *)
(***************************************************************************)
ModelClasses == {"Category", "Custom", "Budget", "Tagged"}

\* Category: name: str, parent: int | None = None, pk: int = 0
CategoryHints == [name |-> "str", parent |-> "Optional[int]", pk |-> "int"]

\* Custom has class attributes and no annotations
CustomHints == <<>>

\* Budget: pk: int, date: datetime and three int amounts
BudgetHints ==
    [pk |-> "int", date |-> "datetime", daily_amount |-> "int",
     weekly_amount |-> "int", monthly_amount |-> "int"]

\* Expense: amount: int, category: int, expense_date: datetime,
\* added_date: datetime, comment: str = '', pk: int = 0
ExpenseHints ==
    [amount |-> "int", category |-> "int", expense_date |-> "datetime",
     added_date |-> "datetime", comment |-> "str", pk |-> "int"]

\* Tagged: tags: list[int], meta: list, pk: int = 0
TaggedHints == [tags |-> "list[int]", meta |-> "list", pk |-> "int"]

\* get_type_hints(self.model_class)
type_hints(mc) ==
    CASE mc = "Category" -> CategoryHints
      [] mc = "Custom" -> CustomHints
      [] mc = "Budget" -> BudgetHints
      [] mc = "Tagged" -> TaggedHints
      [] mc = "Expense" -> ExpenseHints

\* the columns _create_table gives the table: one per type hint, and for
\* the table named custom also name, test and pk
Columns(mc) ==
    IF mc = "Custom" THEN DOMAIN type_hints(mc) \cup {"name", "test", "pk"}
    ELSE DOMAIN type_hints(mc)

\* Optional[X]: get_origin(hint) is not None and type(None) in get_args(hint)
IsOptional(hint) == hint = "Optional[int]"

\* the X of Optional[X]
InnerType(hint) == "int"

\* isinstance(hint, (type(int), type(float), type(str), type(bool))): every
\* one of the four is `type`, so this is true of any plain class and false
\* of a parameterised generic such as list[int]
IsInstanceOfType(hint) == hint \in {"int", "str", "datetime", "list"}

\* the class attribute getattr falls back to (Custom only)
ClassDefault(mc, a) == IF a = "pk" THEN PyInt(0) ELSE PyStr(<<>>)

\* getattr(obj, a)
getattr(mc, obj, a) == IF obj[a] = ABSENT THEN ClassDefault(mc, a) ELSE obj[a]

\* the instances callers pass, by class; pk ranges over 0 (unsaved) and the
\* identifiers the table can hold, plus one it cannot
PkValues == {PyInt(n) : n \in 0..(MaxPk + 1)}

Instances(mc) ==
    CASE mc = "Category" ->
            [name : {PyStr(<<"a">>), PyStr(<<"b">>)},
             parent : {PyNone, PyInt(1)},
             pk : PkValues]
      [] mc = "Custom" ->
            [name : {ABSENT, PyStr(<<"a">>)},
             test : {ABSENT, PyStr(<<"c">>)},
             pk : PkValues]
      [] mc = "Budget" ->
            [date : {PyDatetime(1, 0), PyDatetime(2, 5)},
             daily_amount : {PyInt(1)},
             weekly_amount : {PyInt(7)},
             monthly_amount : {PyInt(30)},
             pk : PkValues]
      [] mc = "Tagged" ->
            [tags : {PyList(<<>>), PyList(<<1, 2>>), PySet(<<1>>)},
             meta : {PyList(<<3>>)},
             pk : PkValues]

\* _object_to_dict: the attributes of the instance's __dict__ (or slots),
\* a datetime as ISO text, a non-primitive value as JSON text, the rest as is
object_to_dict(obj) ==
    [a \in {b \in DOMAIN obj : obj[b] # ABSENT} |->
        IF obj[a].k = "datetime" THEN PyStr(isoformat(obj[a]))
        ELSE IF obj[a].k \notin {"int", "float", "str", "bool", "None"}
             THEN PyStr(json_dumps(obj[a]))
        ELSE obj[a]]

\* the exception _object_to_dict ends with: json.dumps is called without a
\* try, so its TypeError leaves _object_to_dict and the operation
object_to_dict_error(obj) ==
    IF \E a \in DOMAIN obj :
            /\ obj[a].k \notin {"ABSENT", "datetime", "int", "float", "str",
                                "bool", "None"}
            /\ json_dumps_raises(obj[a])
    THEN "TypeError" ELSE "ok"

\* the conversion _row_to_object applies to the cell of column key
row_value(mc, key, value) ==
    IF key \in DOMAIN type_hints(mc)
    THEN LET declared == type_hints(mc)[key]
             hint == IF IsOptional(declared) THEN InnerType(declared)
                     ELSE declared
         IN  IF IsOptional(declared) /\ value = PyNone THEN PyNone
             ELSE IF hint = "datetime" /\ value.k = "str"
                  THEN fromisoformat(value.s)
             ELSE IF ~IsInstanceOfType(hint)
                  THEN IF value.k = "str" /\ json_parses(value.s)
                       THEN json_loads(value.s)
                       ELSE value
             ELSE value
    ELSE value

\* _row_to_object: an instance with one attribute per column of the row
row_to_object(mc, row) == [key \in DOMAIN row |-> row_value(mc, key, row[key])]

(***************************************************************************)
(* State.                                                                  *)
(***************************************************************************)
VARIABLES
    model_class,  \* the class every Repository here was constructed with
    table,        \* the committed rows of its table: rowid -> (column -> cell)
    ev,           \* the call that has just returned, with its outcome
    returned,     \* history: every identifier a successful add has returned
    live,         \* history: identifiers added and not deleted since
    db,           \* the tables of a file several Repositories are open on:
                  \* table name -> [columns, rows]
    conn,         \* those Repositories: instance -> [mc, pc, pk]
    window        \* the presenter's main window: the state of its widgets

vars == <<model_class, table, ev, returned, live, db, conn, window>>

\* the variables the one-Repository specification leaves alone: the file
\* shared between Repositories and the presenter's window
shared == <<db, conn, window>>

NoObj == <<>>

NoWhere == <<>>

Event(op, obj, pk, filtered, where, err, ret, after, res) ==
    [op |-> op, obj |-> obj, pk |-> pk, filtered |-> filtered,
     where |-> where, err |-> err, ret |-> ret, after |-> after, res |-> res]

(***************************************************************************)
(* The SQL statements the Repository issues, on the rows of the table.     *)
(***************************************************************************)
Max(S) == CHOOSE x \in S : \A y \in S : y <= x

\* a set of rowids as the sequence a table scan visits them in
InRowidOrder(S) ==
    [i \in 1..Cardinality(S) |->
        CHOOSE p \in S : Cardinality({q \in S : q < p}) = i - 1]

\* an insert that writes rowid 0
NextRowid_zero(t) == 0

\* "pk INTEGER PRIMARY KEY" without AUTOINCREMENT: an insert that gives no pk
\* takes the largest rowid in the table plus one, and 1 in an empty table
NextRowid(t) == IF DOMAIN t = {} THEN 1 ELSE Max(DOMAIN t) + 1

\* INSERT INTO table (columns) VALUES (...): columns not listed are NULL
sql_insert(t, mc, cols) ==
    LET rowid == NextRowid(t)
    IN  [p \in DOMAIN t \cup {rowid} |->
            IF p = rowid
            THEN [c \in Columns(mc) |->
                    IF c = "pk" THEN PyInt(rowid)
                    ELSE IF c \in DOMAIN cols THEN cols[c]
                    ELSE PyNone]
            ELSE t[p]]

\* an UPDATE without its WHERE clause: every row takes the columns
sql_update_no_where(t, cols, pk) ==
    [p \in DOMAIN t |->
        [c \in DOMAIN t[p] |-> IF c \in DOMAIN cols THEN cols[c] ELSE t[p][c]]]

\* UPDATE table SET columns WHERE pk = ?: no row matching is not an error
sql_update(t, cols, pk) ==
    [p \in DOMAIN t |->
        IF p = pk
        THEN [c \in DOMAIN t[p] |-> IF c \in DOMAIN cols THEN cols[c] ELSE t[p][c]]
        ELSE t[p]]

\* a DELETE whose WHERE clause matches no row
sql_delete_no_row(t, pk) == t

\* a DELETE that cascades to the rows whose parent column holds pk
sql_delete_cascade(t, pk) ==
    [p \in {q \in DOMAIN t \ {pk} :
                "parent" \notin DOMAIN t[q] \/ t[q]["parent"] # PyInt(pk)} |->
        t[p]]

\* DELETE FROM table WHERE pk = ?
sql_delete(t, pk) == [p \in DOMAIN t \ {pk} |-> t[p]]

\* the value sqlite3 binds for a parameter: a datetime goes through the
\* registered adapter (isoformat), None binds NULL
sql_param(v) == IF v.k = "datetime" THEN PyStr(isoformat(v)) ELSE v

\* column = ? in a WHERE clause: a comparison with NULL is never true
sql_equals(cell, param) == cell # PyNone /\ param # PyNone /\ cell = param

\* the names other than its declared columns that SQLite resolves in a WHERE
\* clause on the table: the keyword NULL and rowid, the alias of the
\* INTEGER PRIMARY KEY column
SqlNames == {"null", "rowid"}

\* the value of the expression a key of where is pasted as into "key = ?"
sql_expr(row, key) ==
    IF key = "null" THEN PyNone
    ELSE IF key = "rowid" THEN row["pk"]
    ELSE row[key]

\* SELECT * FROM table WHERE c1 = ? AND c2 = ? ...
sql_select_where(t, where) ==
    LET hit == {p \in DOMAIN t :
                    \A c \in DOMAIN where :
                        sql_equals(sql_expr(t[p], c), sql_param(where[c]))}
    IN  [i \in 1..Cardinality(hit) |-> t[InRowidOrder(hit)[i]]]

\* SELECT * FROM table
sql_select_all(t) == [i \in 1..Cardinality(DOMAIN t) |-> t[InRowidOrder(DOMAIN t)[i]]]

(***************************************************************************)
(* The Repository's queries, as functions of the table.                    *)
(***************************************************************************)
\* get(pk): None (the empty sequence) or the instance of the row
get(t, mc, pk) ==
    IF pk \in DOMAIN t THEN <<row_to_object(mc, t[pk])>> ELSE <<>>

\* get_all() reading one row with fetchone() in place of fetchall()
get_all_fetchone(t, mc) ==
    IF DOMAIN t = {} THEN <<>> ELSE <<row_to_object(mc, sql_select_all(t)[1])>>

\* get_all(): every row as an instance
get_all(t, mc) ==
    [i \in 1..Len(sql_select_all(t)) |-> row_to_object(mc, sql_select_all(t)[i])]

\* get_all(where), where a dict naming columns of the table
get_all_where(t, mc, where) ==
    [i \in 1..Len(sql_select_where(t, where)) |->
        row_to_object(mc, sql_select_where(t, where)[i])]

\* the error of get_all(where): an empty dict leaves "WHERE" without a
\* condition, a key SQLite cannot resolve is "no such column"; the keys are
\* pasted into the statement as they are, so a key SQLite resolves without
\* it being a column is no error
get_all_error(mc, where) ==
    IF DOMAIN where = {} \/ ~(DOMAIN where \subseteq Columns(mc) \cup SqlNames)
    THEN "OperationalError" ELSE "ok"

(***************************************************************************)
(* Inputs of the calls.                                                    *)
(***************************************************************************)
\* the identifiers get and delete are called with
PkArgs == 0..(MaxPk + 1)

\* the values a caller filters each column by
FilterValues(mc) ==
    CASE mc = "Category" ->
            [name |-> {PyStr(<<"a">>), PyStr(<<"b">>)},
             parent |-> {PyNone, PyInt(1)}]
      [] mc = "Custom" ->
            [name |-> {PyStr(<<"a">>)},
             test |-> {PyStr(<<"c">>)}]
      [] mc = "Budget" ->
            [date |-> {PyDatetime(2, 5)},
             daily_amount |-> {PyInt(1)}]
      [] mc = "Tagged" ->
            [pk |-> {PyInt(1)}]

\* the where dicts: every choice of known columns (the empty dict too) with
\* a value each, and dicts whose one key is no column of the table
Filters(mc) ==
    LET fv == FilterValues(mc)
    IN  UNION {{f \in [K -> UNION {fv[c] : c \in DOMAIN fv}] :
                    \A c \in K : f[c] \in fv[c]} : K \in SUBSET DOMAIN fv}
        \cup {[nope |-> PyInt(1)], [null |-> PyInt(1)], [rowid |-> PyInt(1)]}

(***************************************************************************)
(* The operations.  Each action is one call on the Repository, from its    *)
(* first line to its return or raise; add, update and delete commit        *)
(* before they return.                                                     *)
(***************************************************************************)
\* add refusing only an instance that has no pk at all
add_rejects_only_none(mc, obj) == getattr(mc, obj, "pk") = PyNone

\* add, line 262: getattr(obj, 'pk', None) != 0
add_rejects(mc, obj) == getattr(mc, obj, "pk") # PyInt(0)

\* update refusing only an instance that has no pk at all
update_rejects_only_none(mc, obj) == getattr(mc, obj, "pk") = PyNone

\* update, line 351: getattr(obj, 'pk', 0) == 0
update_rejects(mc, obj) == getattr(mc, obj, "pk") = PyInt(0)

\* obj_dict without its pk entry
without_pk(d) == [a \in DOMAIN d \ {"pk"} |-> d[a]]

\* delete without its existence check
delete_missing_unchecked(t, mc, pk) == FALSE

\* delete, line 383: self.get(pk) is None
delete_missing(t, mc, pk) == get(t, mc, pk) = <<>>

\* add(obj) on the rows t of the table: the exception it ends with or "ok",
\* the rows it leaves committed and the pk it returns
add_call(t, mc, obj) ==
    IF add_rejects(mc, obj)
    THEN [err |-> "ValueError", rows |-> t, ret |-> 0]
    ELSE IF object_to_dict_error(obj) # "ok"
    THEN [err |-> object_to_dict_error(obj), rows |-> t, ret |-> 0]
    ELSE IF DOMAIN without_pk(object_to_dict(obj)) = {}
    THEN [err |-> "OperationalError", rows |-> t, ret |-> 0]
    ELSE [err |-> "ok",
          rows |-> sql_insert(t, mc, without_pk(object_to_dict(obj))),
          ret |-> NextRowid(t)]

\* update(obj) on the rows t of the table
update_call(t, mc, obj) ==
    IF update_rejects(mc, obj)
    THEN [err |-> "ValueError", rows |-> t]
    ELSE IF object_to_dict_error(obj) # "ok"
    THEN [err |-> object_to_dict_error(obj), rows |-> t]
    ELSE IF DOMAIN without_pk(object_to_dict(obj)) = {}
    THEN [err |-> "OperationalError", rows |-> t]
    ELSE [err |-> "ok",
          rows |-> sql_update(t, without_pk(object_to_dict(obj)),
                              getattr(mc, obj, "pk").n)]

\* delete(pk) on the rows t of the table, when no other connection writes
\* between its existence check and its DELETE
delete_call(t, mc, pk) ==
    IF delete_missing(t, mc, pk)
    THEN [err |-> "KeyError", rows |-> t]
    ELSE [err |-> "ok", rows |-> sql_delete(t, pk)]

Add(obj) ==
    LET cols == without_pk(object_to_dict(obj))
        pk0 == getattr(model_class, obj, "pk").n
        rowid == NextRowid(table)
    IN  IF add_rejects(model_class, obj)
        THEN /\ ev' = Event("add", obj, pk0, FALSE, NoWhere,
                            "ValueError", 0, obj, <<>>)
             /\ UNCHANGED <<model_class, table, returned, live>>
        ELSE IF object_to_dict_error(obj) # "ok"
        THEN /\ ev' = Event("add", obj, pk0, FALSE, NoWhere,
                            object_to_dict_error(obj), 0, obj, <<>>)
             /\ UNCHANGED <<model_class, table, returned, live>>
        ELSE IF DOMAIN cols = {}
        THEN \* INSERT INTO t () VALUES (): a syntax error in SQLite
             /\ ev' = Event("add", obj, pk0, FALSE, NoWhere,
                            "OperationalError", 0, obj, <<>>)
             /\ UNCHANGED <<model_class, table, returned, live>>
        ELSE /\ rowid <= MaxPk
             /\ table' = sql_insert(table, model_class, cols)
             /\ ev' = Event("add", obj, pk0, FALSE, NoWhere, "ok", rowid,
                            [obj EXCEPT !.pk = PyInt(rowid)], <<>>)
             /\ returned' = returned \cup {rowid}
             /\ live' = live \cup {rowid}
             /\ UNCHANGED model_class

Get(pk) ==
    /\ ev' = Event("get", NoObj, pk, FALSE, NoWhere, "ok", 0, NoObj,
                   get(table, model_class, pk))
    /\ UNCHANGED <<model_class, table, returned, live>>

GetAll ==
    /\ ev' = Event("get_all", NoObj, 0, FALSE, NoWhere, "ok", 0, NoObj,
                   get_all(table, model_class))
    /\ UNCHANGED <<model_class, table, returned, live>>

GetAllWhere(where) ==
    LET err == get_all_error(model_class, where)
    IN  /\ ev' = Event("get_all", NoObj, 0, TRUE, where, err, 0, NoObj,
                       IF err = "ok"
                       THEN get_all_where(table, model_class, where)
                       ELSE <<>>)
        /\ UNCHANGED <<model_class, table, returned, live>>

Update(obj) ==
    LET cols == without_pk(object_to_dict(obj))
        pk0 == getattr(model_class, obj, "pk").n
    IN  IF update_rejects(model_class, obj)
        THEN /\ ev' = Event("update", obj, pk0, FALSE, NoWhere,
                            "ValueError", 0, obj, <<>>)
             /\ UNCHANGED <<model_class, table, returned, live>>
        ELSE IF object_to_dict_error(obj) # "ok"
        THEN /\ ev' = Event("update", obj, pk0, FALSE, NoWhere,
                            object_to_dict_error(obj), 0, obj, <<>>)
             /\ UNCHANGED <<model_class, table, returned, live>>
        ELSE IF DOMAIN cols = {}
        THEN \* UPDATE t SET  WHERE pk = ?: a syntax error in SQLite
             /\ ev' = Event("update", obj, pk0, FALSE, NoWhere,
                            "OperationalError", 0, obj, <<>>)
             /\ UNCHANGED <<model_class, table, returned, live>>
        ELSE /\ table' = sql_update(table, cols, pk0)
             /\ ev' = Event("update", obj, pk0, FALSE, NoWhere, "ok", 0,
                            obj, <<>>)
             /\ UNCHANGED <<model_class, returned, live>>


Delete(pk) ==
    IF delete_missing(table, model_class, pk)
    THEN /\ ev' = Event("delete", NoObj, pk, FALSE, NoWhere, "KeyError",
                        0, NoObj, <<>>)
         /\ UNCHANGED <<model_class, table, returned, live>>
    ELSE /\ table' = sql_delete(table, pk)
         /\ ev' = Event("delete", NoObj, pk, FALSE, NoWhere, "ok", 0,
                        NoObj, <<>>)
         /\ live' = live \ {pk}
         /\ UNCHANGED <<model_class, returned>>

\* __init__ on a fresh database file: _create_table has made the empty table
Init ==
    /\ model_class \in ModelClasses
    /\ table = <<>>
    /\ ev = Event("init", NoObj, 0, FALSE, NoWhere, "ok", 0, NoObj, <<>>)
    /\ returned = {}
    /\ live = {}
    /\ db = <<>>
    /\ conn = <<>>
    /\ window = <<>>

Next ==
    \/ (\E obj \in Instances(model_class) : Add(obj)) /\ UNCHANGED shared
    \/ (\E pk \in PkArgs : Get(pk)) /\ UNCHANGED shared
    \/ GetAll /\ UNCHANGED shared
    \/ (\E where \in Filters(model_class) : GetAllWhere(where))
            /\ UNCHANGED shared
    \/ (\E obj \in Instances(model_class) : Update(obj)) /\ UNCHANGED shared
    \/ (\E pk \in PkArgs : Delete(pk)) /\ UNCHANGED shared

Spec == Init /\ [][Next]_vars

(***************************************************************************)
(* Properties.                                                             *)
(***************************************************************************)
\* the identifiers of a sequence of instances
PksOf(res) == {res[i].pk.n : i \in 1..Len(res)}

\* instance g has the attribute values of instance i, attribute by attribute
AttributeEqual(mc, g, i) ==
    /\ DOMAIN g = DOMAIN i
    /\ \A a \in DOMAIN i : getattr(mc, g, a) = getattr(mc, i, a)

AddSucceeded == ev.op = "add" /\ ev.err = "ok"

\* C1: every successful add on an instance with pk == 0 sets its pk to a
\* positive integer that no earlier add on the table has returned, rows
\* deleted since included.
C1_AddNeverReusesPk ==
    [][(ev'.op = "add" /\ ev'.err = "ok")
        => /\ ev'.ret > 0
           /\ ev'.after.pk = PyInt(ev'.ret)
           /\ ev'.ret \notin returned]_vars

\* C2: after a successful add(i), add has returned i.pk and get(i.pk) is an
\* instance equal to i attribute by attribute (null stays null, timestamps
\* come back as the same timestamps, encoded values come back deep-equal).
C2_AddThenGetRoundTrip ==
    AddSucceeded
        => /\ ev.after.pk = PyInt(ev.ret)
           /\ get(table, model_class, ev.ret) # <<>>
           /\ AttributeEqual(model_class, get(table, model_class, ev.ret)[1],
                             ev.after)

\* C3: get_all() without a filter returns exactly one instance per row added
\* and not deleted since: none missing, none twice, no deleted row.
C3_GetAllIsLiveRows ==
    (ev.op = "get_all" /\ ~ev.filtered)
        => /\ ev.err = "ok"
           /\ PksOf(ev.res) = live
           /\ Len(ev.res) = Cardinality(live)

\* a get_all() that has returned a row while an added row was deleted before
C3_Witness ==
    /\ ev.op = "get_all" /\ ~ev.filtered
    /\ Len(ev.res) >= 1
    /\ returned \ live # {}

\* the rows whose stored value equals the filter's value, column by column
RowsEqualTo(where) ==
    {p \in DOMAIN table :
        \A c \in DOMAIN where :
            row_to_object(model_class, table[p])[c] = where[c]}

\* the filter with the one entry of where for column c
OneKey(where, c) == [k \in {c} |-> where[k]]

\* C4: get_all(filter) returns exactly the rows whose stored value equals
\* the filter's value for every column the filter lists, and a filter of two
\* columns returns the intersection of what each one-column filter returns.
C4_GetAllWhereIsConjunction ==
    (/\ ev.op = "get_all" /\ ev.filtered
     /\ DOMAIN ev.where # {} /\ DOMAIN ev.where \subseteq Columns(model_class))
        => /\ ev.err = "ok"
           /\ PksOf(ev.res) = RowsEqualTo(ev.where)
           /\ Len(ev.res) = Cardinality(RowsEqualTo(ev.where))
           /\ \A c \in DOMAIN ev.where :
                PksOf(ev.res) \subseteq
                    PksOf(get_all_where(table, model_class, OneKey(ev.where, c)))
           /\ \A p \in DOMAIN table :
                (\A c \in DOMAIN ev.where :
                    p \in PksOf(get_all_where(table, model_class,
                                              OneKey(ev.where, c))))
                    => p \in PksOf(ev.res)

\* C5: add on an instance whose pk is not zero fails with ValueError, inserts
\* no row and leaves the instance's pk as it was.
C5_AddWithPkRejected ==
    [][(ev'.op = "add" /\ getattr(model_class, ev'.obj, "pk") # PyInt(0))
        => /\ ev'.err = "ValueError"
           /\ table' = table
           /\ ev'.after = ev'.obj]_vars

\* an add with a filled pk has been refused on a table that holds a row
C5_Witness ==
    /\ ev.op = "add" /\ ev.obj.pk # PyInt(0) /\ ev.err = "ValueError"
    /\ DOMAIN table # {}

\* C6: update on an instance whose pk is zero fails with ValueError and
\* changes no row.
C6_UpdateWithoutPkRejected ==
    [][(ev'.op = "update" /\ getattr(model_class, ev'.obj, "pk") = PyInt(0))
        => /\ ev'.err = "ValueError"
           /\ table' = table]_vars

\* an update with pk zero has been refused on a table that holds a row
C6_Witness ==
    /\ ev.op = "update" /\ ev.obj.pk = PyInt(0) /\ ev.err = "ValueError"
    /\ DOMAIN table # {}

\* C7: delete(x) when no row has identifier x fails with KeyError and leaves
\* the table unchanged.
C7_DeleteMissingRaises ==
    [][(ev'.op = "delete" /\ ev'.pk \notin DOMAIN table)
        => /\ ev'.err = "KeyError"
           /\ table' = table]_vars

\* a delete of an identifier that was deleted before has been refused, with
\* another row in the table
C7_Witness ==
    /\ ev.op = "delete" /\ ev.err = "KeyError"
    /\ ev.pk \in returned \ live
    /\ DOMAIN table # {}

\* C8: after delete(pk) of an existing row succeeds, get(pk) returns None
\* without an error and a second delete(pk) right after it raises KeyError.
C8_DeleteThenGetThenDelete ==
    [][(ev.op = "delete" /\ ev.err = "ok")
        => /\ get(table, model_class, ev.pk) = <<>>
           /\ (ev'.op = "get" /\ ev'.pk = ev.pk)
                => (ev'.err = "ok" /\ ev'.res = <<>>)
           /\ (ev'.op = "delete" /\ ev'.pk = ev.pk)
                => (ev'.err = "KeyError" /\ table' = table)]_vars

\* a delete has succeeded and left another row in the table
C8_Witness ==
    /\ ev.op = "delete" /\ ev.err = "ok"
    /\ DOMAIN table # {}

\* C9: update(i) with a non-zero pk that matches a row overwrites every
\* non-pk column with i's attribute values, so that get(i.pk) is then equal
\* to i attribute by attribute; the row keeps its pk.
C9_UpdateOverwritesRow ==
    (ev.op = "update" /\ ev.pk \in DOMAIN table)
        => /\ ev.err = "ok"
           /\ table[ev.pk].pk = PyInt(ev.pk)
           /\ AttributeEqual(model_class, get(table, model_class, ev.pk)[1],
                             ev.obj)

\* C10: update(i) with a non-zero pk that matches no row returns without an
\* error and changes nothing: no row is created and the table is unchanged.
C10_UpdateMissingRowIsNoop ==
    [][(ev'.op = "update" /\ ev'.pk # 0 /\ ev'.pk \notin DOMAIN table)
        => /\ ev'.err = "ok"
           /\ table' = table]_vars

\* C13: get_all with a filter that names an attribute which is not a column
\* of the table fails with the storage's error; it returns no result, empty
\* or not, for such a name, and the table is unchanged.
C13_UnknownFilterKeyRaises ==
    [][(/\ ev'.op = "get_all" /\ ev'.filtered
        /\ ~(DOMAIN ev'.where \subseteq Columns(model_class)))
        => /\ ev'.err = "OperationalError"
           /\ ev'.res = <<>>
           /\ table' = table]_vars

\* an attribute value json.dumps cannot encode
Unencodable(obj) ==
    \E a \in DOMAIN obj : obj[a].k \notin {"ABSENT", "datetime"}
                            /\ json_dumps_raises(obj[a])

\* C14: a value that cannot round-trip through the JSON encoding never makes
\* the whole operation fail: add and update of an instance holding such a
\* value still complete (the value stored as raw text), and get returns a
\* stored text that does not parse as JSON as the raw text.
C14_EncodingFailureFallsBack ==
    /\ (/\ ev.op \in {"add", "update"}
        /\ getattr(model_class, ev.obj, "pk") # PyInt(0) <=> ev.op = "update"
        /\ Unencodable(ev.obj))
            => /\ ev.err = "ok"
               /\ ev.op = "add" => ev.ret \in DOMAIN table
    /\ \A p \in DOMAIN table : \A c \in DOMAIN table[p] :
            (table[p][c].k = "str" /\ ~json_parses(table[p][c].s)
             /\ c \in DOMAIN type_hints(model_class)
             /\ type_hints(model_class)[c] \in {"list", "list[int]"})
                => get(table, model_class, p)[1][c] = table[p][c]
(***************************************************************************)
(* Several Repositories on one file.  Each Repository has its own          *)
(* connection (sqlite3.connect in __init__); what a statement reads is the *)
(* committed content of the file.  add and update are one step each: the   *)
(* statement and the commit that follows it.  delete is two steps, its     *)
(* existence check (a SELECT through get) and its DELETE with the commit,  *)
(* and another Repository may act between the two.                         *)
(***************************************************************************)
Repos == {"r1", "r2"}

\* self.table_name = model_class.__name__.lower()
table_name(mc) ==
    CASE mc = "Category" -> "category"
      [] mc = "Expense" -> "expense"
      [] mc = "Budget" -> "budget"
      [] mc = "Custom" -> "custom"
      [] mc = "Tagged" -> "tagged"

\* the instances the callers of a shared file pass
SharedInstances(mc) ==
    CASE mc = "Category" ->
            [name : {PyStr(<<"a">>)},
             parent : {PyNone, PyInt(1)},
             pk : PkValues]
      [] mc = "Expense" ->
            [amount : {PyInt(100)},
             category : {PyInt(1)},
             expense_date : {PyDatetime(1, 0)},
             added_date : {PyDatetime(2, 5)},
             comment : {PyStr(<<"c">>)},
             pk : PkValues]

\* the rows of the table of mc in the file d
Rows(d, mc) == d[table_name(mc)].rows

\* CREATE TABLE without IF NOT EXISTS, on a file where the table was dropped
create_table_always(d, mc) ==
    [n \in DOMAIN d \cup {table_name(mc)} |->
        IF n = table_name(mc)
        THEN [columns |-> Columns(mc), rows |-> <<>>]
        ELSE d[n]]

\* _create_table: CREATE TABLE IF NOT EXISTS table (columns), and commit
create_table(d, mc) ==
    IF table_name(mc) \in DOMAIN d THEN d
    ELSE [n \in DOMAIN d \cup {table_name(mc)} |->
            IF n = table_name(mc)
            THEN [columns |-> Columns(mc), rows |-> <<>>]
            ELSE d[n]]

\* a return without self.conn.commit(): the statement stays in the
\* connection's open transaction and the file keeps its content
commit_nothing(d, mc, rows) == d

\* self.conn.commit(): the rows the statement left become the file's
commit(d, mc, rows) == [d EXCEPT ![table_name(mc)].rows = rows]

\* the call of Repository repo that has just returned
Returned(repo, op, obj, pk, err, ret, res) ==
    [repo |-> repo, op |-> op, obj |-> obj, pk |-> pk, err |-> err,
     ret |-> ret, res |-> res]

\* the variables the shared-file specification leaves alone: those of the
\* one-Repository specification and the presenter's window
single == <<model_class, table, returned, live, window>>

\* SqliteRepository(db_path, model_class)
Construct(r) ==
    /\ conn[r].pc \in {"closed", "idle"}
    /\ db' = create_table(db, conn[r].mc)
    /\ conn' = [conn EXCEPT ![r].pc = "idle"]
    /\ ev' = Returned(r, "init", NoObj, 0, "ok", 0, <<>>)
    /\ UNCHANGED single

SharedAdd(r, obj) ==
    LET mc == conn[r].mc
        out == add_call(Rows(db, mc), mc, obj)
    IN  /\ conn[r].pc = "idle"
        /\ out.err = "ok" => out.ret <= MaxPk
        /\ db' = IF out.err = "ok" THEN commit(db, mc, out.rows) ELSE db
        /\ ev' = Returned(r, "add", obj, getattr(mc, obj, "pk").n, out.err,
                          out.ret, <<>>)
        /\ UNCHANGED <<conn, single>>

SharedGet(r, pk) ==
    /\ conn[r].pc = "idle"
    /\ ev' = Returned(r, "get", NoObj, pk, "ok", 0,
                      get(Rows(db, conn[r].mc), conn[r].mc, pk))
    /\ UNCHANGED <<db, conn, single>>

SharedGetAll(r) ==
    /\ conn[r].pc = "idle"
    /\ ev' = Returned(r, "get_all", NoObj, 0, "ok", 0,
                      get_all(Rows(db, conn[r].mc), conn[r].mc))
    /\ UNCHANGED <<db, conn, single>>

SharedUpdate(r, obj) ==
    LET mc == conn[r].mc
        out == update_call(Rows(db, mc), mc, obj)
    IN  /\ conn[r].pc = "idle"
        /\ db' = IF out.err = "ok" THEN commit(db, mc, out.rows) ELSE db
        /\ ev' = Returned(r, "update", obj, getattr(mc, obj, "pk").n,
                          out.err, 0, <<>>)
        /\ UNCHANGED <<conn, single>>

\* delete, lines 382-384: the existence check
DeleteCheck(r, pk) ==
    /\ conn[r].pc = "idle"
    /\ IF delete_missing(Rows(db, conn[r].mc), conn[r].mc, pk)
       THEN /\ ev' = Returned(r, "delete", NoObj, pk, "KeyError", 0, <<>>)
            /\ UNCHANGED conn
       ELSE /\ conn' = [conn EXCEPT ![r].pc = "checked", ![r].pk = pk]
            /\ UNCHANGED ev
    /\ UNCHANGED <<db, single>>

\* delete, lines 386-391: the DELETE and the commit
DeleteRun(r) ==
    /\ conn[r].pc = "checked"
    /\ db' = commit(db, conn[r].mc,
                    sql_delete(Rows(db, conn[r].mc), conn[r].pk))
    /\ conn' = [conn EXCEPT ![r].pc = "idle", ![r].pk = 0]
    /\ ev' = Returned(r, "delete", NoObj, conn[r].pk, "ok", 0, <<>>)
    /\ UNCHANGED single

\* an empty file, and two Repositories about to be constructed on it: both
\* for Category, or one for Category and one for Expense
SharedInit ==
    /\ model_class = "Category"
    /\ table = <<>>
    /\ returned = {}
    /\ live = {}
    /\ db = <<>>
    /\ window = <<>>
    /\ \E mc2 \in {"Category", "Expense"} :
            conn = [r \in Repos |->
                        [mc |-> IF r = "r1" THEN "Category" ELSE mc2,
                         pc |-> "closed", pk |-> 0]]
    /\ ev = Returned("", "start", NoObj, 0, "ok", 0, <<>>)

SharedNext ==
    \E r \in Repos :
        \/ Construct(r)
        \/ \E obj \in SharedInstances(conn[r].mc) : SharedAdd(r, obj)
        \/ \E pk \in PkArgs : SharedGet(r, pk)
        \/ SharedGetAll(r)
        \/ \E obj \in SharedInstances(conn[r].mc) : SharedUpdate(r, obj)
        \/ \E pk \in PkArgs : DeleteCheck(r, pk)
        \/ DeleteRun(r)

SpecShared == SharedInit /\ [][SharedNext]_vars

\* the last call was a successful add, update or delete
WriteReturned == ev.op \in {"add", "update", "delete"} /\ ev.err = "ok"

\* the identifier of the row the last (successful) write was about
WrittenPk == IF ev.op = "add" THEN ev.ret ELSE ev.pk

\* what get(WrittenPk) returns once the last (successful) write is in the
\* file t: the instance added, the instance updated to (when its row
\* exists), nothing after a delete
WrittenInstance(t) ==
    CASE ev.op = "add" -> <<[ev.obj EXCEPT !.pk = PyInt(ev.ret)]>>
      [] ev.op = "update" -> IF ev.pk \in DOMAIN t THEN <<ev.obj>> ELSE <<>>
      [] ev.op = "delete" -> <<>>

\* C11: every successful add, update and delete is committed before it
\* returns: the very next get or get_all of another Repository instance
\* open on the same file for the same class observes the change, with no
\* later operation needed to make it durable.
C11_CommittedBeforeReturn ==
    [][(/\ WriteReturned
        /\ ev'.repo # ev.repo
        /\ conn[ev'.repo].mc = conn[ev.repo].mc)
        => LET t == Rows(db, conn[ev.repo].mc)
               seen == {ev'.res[i] : i \in 1..Len(ev'.res)}
           IN  /\ Rows(db', conn[ev.repo].mc) = t \/ ev'.op \notin {"get", "get_all"}
               /\ (ev'.op = "get" /\ ev'.pk = WrittenPk)
                    => ev'.res = WrittenInstance(t)
               /\ ev'.op = "get_all"
                    => /\ \A o \in seen : o.pk = PyInt(WrittenPk)
                            => <<o>> = WrittenInstance(t)
                       /\ WrittenInstance(t) # <<>>
                            => WrittenInstance(t)[1] \in seen]_vars

\* r1 has added a row that r2, constructed for the same class, will read
C11_Witness ==
    /\ ev.repo = "r1" /\ ev.op = "add" /\ ev.err = "ok"
    /\ conn["r2"].mc = conn["r1"].mc /\ conn["r2"].pc = "idle"
    /\ Cardinality(DOMAIN Rows(db, "Category")) >= 2

\* C12: in every reachable state of every table, every stored pk is non-zero
\* and no two rows have the same pk, whatever add, update and delete calls
\* of one or several Repository instances on the file led to the state.
C12_PksNonZeroAndUnique ==
    \A n \in DOMAIN db :
        LET t == db[n].rows
        IN  \A p \in DOMAIN t :
                /\ p # 0
                /\ t[p]["pk"] = PyInt(p)
                /\ \A q \in DOMAIN t : t[q]["pk"] = t[p]["pk"] => q = p

\* r2 has added a row and was given an identifier that r1, between the
\* check and the DELETE of its delete, had found in the table
C12_Witness ==
    /\ ev.repo = "r2" /\ ev.op = "add" /\ ev.err = "ok"
    /\ conn["r1"].pc = "checked" /\ conn["r1"].pk = ev.ret
    /\ conn["r2"].mc = conn["r1"].mc
    /\ Cardinality(DOMAIN Rows(db, "Category")) >= 2

\* C15: constructing a Repository for a class whose table exists in the file
\* leaves the columns and every row of that table (and all other tables)
\* unchanged, whatever operations came before; only the construction that
\* finds no table creates it, empty, with the columns of the class.
C15_ConstructKeepsTable ==
    [][ev'.op = "init"
        => LET mc == conn[ev'.repo].mc
           IN  IF table_name(mc) \in DOMAIN db
               THEN db' = db
               ELSE /\ DOMAIN db' = DOMAIN db \cup {table_name(mc)}
                    /\ db'[table_name(mc)] =
                            [columns |-> Columns(mc), rows |-> <<>>]
                    /\ \A n \in DOMAIN db : db'[n] = db[n]]_vars

\* a Repository has been constructed on a table that holds rows
C15_Witness ==
    /\ ev.op = "init"
    /\ DOMAIN Rows(db, conn[ev.repo].mc) # {}

\* C16: add, update and delete act on one row only and enforce no referential
\* integrity: an update or a delete of a row succeeds whether or not rows of
\* the same or of another table hold its pk as a reference, and every other
\* row of the table and every row of every other table is left as it was.
C16_OneRowNoReferentialIntegrity ==
    [][ev'.op \in {"add", "update", "delete"}
        => LET r == ev'.repo
               mc == conn[r].mc
               key == IF ev'.op = "add" THEN ev'.ret ELSE ev'.pk
               t == Rows(db, mc)
               u == Rows(db', mc)
           IN  /\ DOMAIN db' = DOMAIN db
               /\ \A n \in DOMAIN db \ {table_name(mc)} : db'[n] = db[n]
               /\ db'[table_name(mc)].columns = db[table_name(mc)].columns
               /\ DOMAIN u \subseteq DOMAIN t \cup {key}
               /\ \A p \in DOMAIN t \ {key} : p \in DOMAIN u /\ u[p] = t[p]
               /\ (ev'.op = "update" /\ ev'.pk # 0) => ev'.err = "ok"
               /\ (/\ ev'.op = "delete"
                   /\ conn[r].pc = "checked" /\ conn'[r].pc = "idle")
                    => ev'.err = "ok" /\ key \notin DOMAIN u]_vars

\* category 1 has been deleted while a child category and an expense hold
\* its pk, and both are still there
C16_Witness ==
    /\ ev.op = "delete" /\ ev.err = "ok" /\ ev.pk = 1
    /\ conn[ev.repo].mc = "Category"
    /\ "expense" \in DOMAIN db
    /\ \E p \in DOMAIN Rows(db, "Expense") :
            Rows(db, "Expense")[p]["category"] = PyInt(1)
    /\ \E q \in DOMAIN Rows(db, "Category") :
            Rows(db, "Category")[q]["parent"] = PyInt(1)

(***************************************************************************)
(* The presenter (bookkeeper/presenter.py) and the widgets of its main     *)
(* window.  BookkeeperPresenter.__init__ constructs a Repository for       *)
(* Category, Expense and Budget on one file; each handler runs from its    *)
(* first line to its return on the GUI thread.                             *)
(***************************************************************************)
\* the variables the presenter's specifications leave alone
repository_only == <<model_class, table, returned, live, conn>>

\* the file once __init__ has constructed the three Repositories
PresenterDb ==
    create_table(create_table(create_table(<<>>, "Category"), "Expense"),
                 "Budget")

\* the handler that has just returned: its name, the exception it ended
\* with or "ok", and the values it pushed to the main window
Handled(op, err, pushed) == [op |-> op, err |-> err, pushed |-> pushed]

(***************************************************************************)
(* The budget handlers: load_budget, save_budget and the budget widget.    *)
(***************************************************************************)
\* budget_widget.py: self.daily_budget_spin.setRange(0, 1000000)
DailySpinMax == 1000000

\* budget_widget.py: self.weekly_budget_spin.setRange(0, 10000000)
WeeklySpinMax == 10000000

\* budget_widget.py: self.monthly_budget_spin.setRange(0, 100000000)
MonthlySpinMax == 100000000

\* the values datetime.now() returns to save_budget.  It is the local wall
\* clock, which is not monotonic, and a stored budget may carry any date,
\* so no order between a new value and the stored dates is assumed.
Dates == {PyDatetime(1, 0), PyDatetime(2, 0)}

\* the dollars the user sets each budget spin box to
SpinInputs == [daily |-> {0, 1}, weekly |-> {0, 7}, monthly |-> {0, 30}]

\* a < b on datetimes
datetime_lt(a, b) ==
    a.l[1] < b.l[1] \/ (a.l[1] = b.l[1] /\ a.l[2] < b.l[2])

\* the instance get_all returns last
newest_by_pk(budgets) == budgets[Len(budgets)]

\* max(budgets, key=lambda b: b.date): the first instance in the list whose
\* date no other's exceeds
max_by_date(budgets) ==
    budgets[CHOOSE i \in 1..Len(budgets) :
                /\ \A j \in 1..Len(budgets) :
                        ~datetime_lt(budgets[i].date, budgets[j].date)
                /\ \A j \in 1..(i - 1) :
                        datetime_lt(budgets[j].date, budgets[i].date)]

\* load_budget, lines 104-115: the three amounts it passes to set_budget
load_budget(t) ==
    LET budgets == get_all(t, "Budget")
    IN  IF budgets = <<>> THEN <<0, 0, 0>>
        ELSE <<max_by_date(budgets).daily_amount.n,
               max_by_date(budgets).weekly_amount.n,
               max_by_date(budgets).monthly_amount.n>>

\* QSpinBox.setValue: the value is brought into the range of the spin box
QSpinBox_setValue(value, max) ==
    IF value < 0 THEN 0 ELSE IF value > max THEN max ELSE value

\* set_budgets for one of the three budgets: the attribute is assigned the
\* cents, then the spin box is set to the whole dollars; when that changes
\* the value of the spin box, valueChanged runs on_..._budget_changed,
\* which assigns value * 100
set_one_budget(spin, cents, max) ==
    LET value == QSpinBox_setValue(cents \div 100, max)
    IN  [spin |-> value,
         budget |-> IF value # spin THEN value * 100 ELSE cents]

\* the text f"${cents / 100:.2f}" of a label, for cents >= 0: the dollars
\* and the two digits after the point
label_text(cents) == [dollars |-> cents \div 100, hundredths |-> cents % 100]

\* getattr(self, 'daily_spent', 0) and its like: the attributes exist once
\* set_spent has run
spent_of(bw, period) ==
    IF ~bw.has_spent THEN 0
    ELSE IF period = "Daily" THEN bw.daily_spent
    ELSE IF period = "Weekly" THEN bw.weekly_spent
    ELSE bw.monthly_spent

\* the budget update_status reads for the period
budget_of(bw, period) ==
    IF period = "Daily" THEN bw.daily_budget
    ELSE IF period = "Weekly" THEN bw.weekly_budget
    ELSE bw.monthly_budget

\* budget - spent without the max
remaining_signed(budget, spent) == budget - spent

\* max(0, budget - spent)
remaining(budget, spent) == IF budget - spent < 0 THEN 0 ELSE budget - spent

\* BudgetWidget.update_status
update_status(bw) ==
    LET budget == budget_of(bw, bw.period_combo)
        spent == spent_of(bw, bw.period_combo)
    IN  [bw EXCEPT !.budget_label = label_text(budget),
                   !.spent_label = label_text(spent),
                   !.remaining_label = label_text(remaining(budget, spent))]

\* BudgetWidget.set_budgets(daily, weekly, monthly), callbacks included
set_budgets(bw, daily, weekly, monthly) ==
    LET d == set_one_budget(bw.daily_budget_spin, daily, DailySpinMax)
        w == set_one_budget(bw.weekly_budget_spin, weekly, WeeklySpinMax)
        m == set_one_budget(bw.monthly_budget_spin, monthly, MonthlySpinMax)
    IN  update_status(
            [bw EXCEPT
                !.daily_budget = d.budget, !.daily_budget_spin = d.spin,
                !.weekly_budget = w.budget, !.weekly_budget_spin = w.spin,
                !.monthly_budget = m.budget, !.monthly_budget_spin = m.spin])

\* BudgetWidget.set_spent(daily_spent, weekly_spent, monthly_spent)
set_spent(bw, daily_spent, weekly_spent, monthly_spent) ==
    update_status([bw EXCEPT !.has_spent = TRUE,
                             !.daily_spent = daily_spent,
                             !.weekly_spent = weekly_spent,
                             !.monthly_spent = monthly_spent])

\* BudgetWidget(): the attributes and labels after __init__, before any
\* set_spent
BudgetWidget ==
    [daily_budget |-> 0, daily_budget_spin |-> 0,
     weekly_budget |-> 0, weekly_budget_spin |-> 0,
     monthly_budget |-> 0, monthly_budget_spin |-> 0,
     period_combo |-> "Daily",
     has_spent |-> FALSE,
     daily_spent |-> 0, weekly_spent |-> 0, monthly_spent |-> 0,
     budget_label |-> label_text(0), spent_label |-> label_text(0),
     remaining_label |-> label_text(0)]

\* BookkeeperPresenter.load_budget; main_window.set_budget passes the three
\* amounts on to budget_widget.set_budgets
LoadBudget ==
    LET a == load_budget(Rows(db, "Budget"))
    IN  /\ window' = [window EXCEPT
                        !.budget_widget = set_budgets(@, a[1], a[2], a[3])]
        /\ ev' = Handled("load_budget", "ok", a)
        /\ UNCHANGED <<db, repository_only>>

\* BookkeeperPresenter.save_budget, with now the value of datetime.now()
SaveBudget(now) ==
    LET bw == window.budget_widget
        budget == [pk |-> PyInt(0), date |-> now,
                   daily_amount |-> PyInt(bw.daily_budget),
                   weekly_amount |-> PyInt(bw.weekly_budget),
                   monthly_amount |-> PyInt(bw.monthly_budget)]
        out == add_call(Rows(db, "Budget"), "Budget", budget)
        a == load_budget(out.rows)
    IN  /\ out.ret <= MaxPk
        /\ db' = commit(db, "Budget", out.rows)
        /\ window' = [window EXCEPT
                        !.budget_widget = set_budgets(@, a[1], a[2], a[3])]
        /\ ev' = Handled("save_budget", out.err, a)
        /\ UNCHANGED repository_only

\* the user changes the daily budget spin box: on_daily_budget_changed
OnDailyBudgetChanged(value) ==
    /\ value # window.budget_widget.daily_budget_spin
    /\ window' = [window EXCEPT
                    !.budget_widget =
                        update_status([@ EXCEPT !.daily_budget_spin = value,
                                                !.daily_budget = value * 100])]
    /\ ev' = Handled("on_daily_budget_changed", "ok", <<>>)
    /\ UNCHANGED <<db, repository_only>>

\* the user changes the weekly budget spin box: on_weekly_budget_changed
OnWeeklyBudgetChanged(value) ==
    /\ value # window.budget_widget.weekly_budget_spin
    /\ window' = [window EXCEPT
                    !.budget_widget =
                        update_status([@ EXCEPT !.weekly_budget_spin = value,
                                                !.weekly_budget = value * 100])]
    /\ ev' = Handled("on_weekly_budget_changed", "ok", <<>>)
    /\ UNCHANGED <<db, repository_only>>

\* the user changes the monthly budget spin box: on_monthly_budget_changed
OnMonthlyBudgetChanged(value) ==
    /\ value # window.budget_widget.monthly_budget_spin
    /\ window' = [window EXCEPT
                    !.budget_widget =
                        update_status([@ EXCEPT !.monthly_budget_spin = value,
                                                !.monthly_budget = value * 100])]
    /\ ev' = Handled("on_monthly_budget_changed", "ok", <<>>)
    /\ UNCHANGED <<db, repository_only>>

\* the presenter constructed on a fresh file: load_data has pushed no spent
\* amounts and the budget 0, 0, 0
BudgetInit ==
    /\ model_class = "Budget"
    /\ table = <<>>
    /\ returned = {}
    /\ live = {}
    /\ conn = <<>>
    /\ db = PresenterDb
    /\ window = [budget_widget |->
                    set_spent(set_budgets(BudgetWidget, 0, 0, 0), 0, 0, 0)]
    /\ ev = Handled("init", "ok", <<0, 0, 0>>)

BudgetNext ==
    \/ LoadBudget
    \/ \E now \in Dates : SaveBudget(now)
    \/ \E value \in SpinInputs.daily : OnDailyBudgetChanged(value)
    \/ \E value \in SpinInputs.weekly : OnWeeklyBudgetChanged(value)
    \/ \E value \in SpinInputs.monthly : OnMonthlyBudgetChanged(value)

SpecBudget == BudgetInit /\ [][BudgetNext]_vars

\* the stored budgets whose date no stored budget's date exceeds
LatestBudgets(t) ==
    {p \in DOMAIN t :
        \A q \in DOMAIN t :
            ~datetime_lt(fromisoformat(t[p]["date"].s),
                         fromisoformat(t[q]["date"].s))}

\* the daily, weekly and monthly amount of a stored budget
AmountsOf(row) ==
    <<row["daily_amount"].n, row["weekly_amount"].n, row["monthly_amount"].n>>

\* C17: load_budget pushes to the view the daily, weekly and monthly amounts
\* of the stored budget with the maximum date, and 0, 0, 0 when no budget is
\* stored.
C17_LoadBudgetPushesLatest ==
    ev.op \in {"load_budget", "save_budget"}
        => LET t == Rows(db, "Budget")
           IN  IF DOMAIN t = {} THEN ev.pushed = <<0, 0, 0>>
               ELSE \E p \in LatestBudgets(t) : ev.pushed = AmountsOf(t[p])

\* load_budget has pushed the amounts of the first of two budgets, the
\* second carrying the earlier date and other amounts
C17_Witness ==
    /\ ev.op = "load_budget"
    /\ DOMAIN Rows(db, "Budget") = {1, 2}
    /\ LatestBudgets(Rows(db, "Budget")) = {1}
    /\ AmountsOf(Rows(db, "Budget")[1]) # AmountsOf(Rows(db, "Budget")[2])

\* the daily, weekly and monthly budget the budget widget holds
WidgetBudgets ==
    <<window.budget_widget.daily_budget, window.budget_widget.weekly_budget,
      window.budget_widget.monthly_budget>>

\* C20: after save_budget the number of stored budgets is one more than
\* before, every earlier budget row is unchanged, and the budget with the
\* maximum date, the one load_budget then displays, holds the daily, weekly
\* and monthly values the budget widget held when save_budget was called.
C20_SaveBudgetIsDisplayed ==
    [][ev'.op = "save_budget"
        => LET t == Rows(db, "Budget")
               u == Rows(db', "Budget")
           IN  /\ Cardinality(DOMAIN u) = Cardinality(DOMAIN t) + 1
               /\ \A p \in DOMAIN t : p \in DOMAIN u /\ u[p] = t[p]
               /\ \A p \in LatestBudgets(u) : AmountsOf(u[p]) = WidgetBudgets
               /\ ev'.pushed = WidgetBudgets]_vars

(***************************************************************************)
(* The presenter's category handlers.  window holds category_dialog (the   *)
(* dialog exists or is None) and categories, the dict set_categories was   *)
(* last called with, which the tree of the dialog shows.                   *)
(***************************************************************************)

\* the texts the user enters in the name dialogs
Names == {PyStr(<<>>), PyStr(<<"a">>)}

\* the texts the user enters when renaming a category
NewNames == {PyStr(<<>>), PyStr(<<"b">>)}

\* selectedItems() is empty: the get_..._info functions return None as the id
NoSelection == 0

\* the text of a name dialog that was not shown
NoName == PyStr(<<>>)

\* the handler that has just returned: its name, the id, the text and the ok
\* flag the dialog gave it, the exception it ended with or "ok", the
\* exception it caught or "none", and whether it reloaded the categories
HandledOn(op, id, name, ok, err, caught, reloaded) ==
    [op |-> op, id |-> id, name |-> name, ok |-> ok, err |-> err,
     caught |-> caught, reloaded |-> reloaded]

\* update_tree: a category is a root when its parent is None or 0
is_root(cat) == cat.parent.k = "None" \/ cat.parent.n = 0

\* _add_subcategories, n levels deep: the ids of the items below the items ids
RECURSIVE add_subcategories(_, _, _)
add_subcategories(categories, ids, n) ==
    LET below == {p \in DOMAIN categories :
                    /\ categories[p].parent.k = "int"
                    /\ categories[p].parent.n \in ids}
    IN  IF n = 0 \/ below \subseteq ids THEN ids
        ELSE add_subcategories(categories, ids \cup below, n - 1)

\* update_tree: the ids of the items of the tree
update_tree(categories) ==
    add_subcategories(categories,
                      {p \in DOMAIN categories : is_root(categories[p])},
                      Cardinality(DOMAIN categories))

\* what selectedItems()[0].data(0, Qt.UserRole) can be: an item of the tree
\* or nothing selected
Selections == update_tree(window.categories) \cup {NoSelection}

\* load_categories: {cat.pk: cat for cat in categories}
categories_dict(t) ==
    [p \in {get_all(t, "Category")[i].pk.n :
                i \in 1..Len(get_all(t, "Category"))} |->
        LET i == CHOOSE i \in 1..Len(get_all(t, "Category")) :
                    get_all(t, "Category")[i].pk.n = p
        IN  get_all(t, "Category")[i]]

\* an except clause that catches nothing
catches_nothing(err) == FALSE

\* delete_category: except KeyError
catches(err) == err = "KeyError"

\* for subcat in subcategories: self.category_repo.delete(subcat.pk)
RECURSIVE delete_each(_, _)
delete_each(t, subcategories) ==
    IF subcategories = <<>> THEN [err |-> "ok", rows |-> t]
    ELSE LET out == delete_call(t, "Category", Head(subcategories).pk.n)
         IN  IF out.err # "ok" THEN out
             ELSE delete_each(out.rows, Tail(subcategories))

\* MainWindow.show_categories_dialog: the dialog is created when there is
\* none and is given the categories the main window holds
ShowCategoriesDialog ==
    /\ window' = [window EXCEPT !.category_dialog = TRUE]
    /\ ev' = HandledOn("show_categories_dialog", NoSelection, NoName, TRUE,
                       "ok", "none", FALSE)
    /\ UNCHANGED <<db, repository_only>>

\* a handler that returns early: nothing changes
ReturnsEarly(op, id, name, ok) ==
    /\ ev' = HandledOn(op, id, name, ok, "ok", "none", FALSE)
    /\ UNCHANGED <<db, window, repository_only>>

\* BookkeeperPresenter.add_category, get_category_name returning (name, ok)
AddCategory(name, ok) ==
    IF ~window.category_dialog \/ ~ok \/ name.s = <<>>
    THEN ReturnsEarly("add_category", NoSelection, name, ok)
    ELSE LET category == [pk |-> PyInt(0), name |-> name, parent |-> PyNone]
             out == add_call(Rows(db, "Category"), "Category", category)
         IN  /\ out.ret <= MaxPk
             /\ db' = commit(db, "Category", out.rows)
             /\ window' = [window EXCEPT
                            !.categories = categories_dict(out.rows)]
             /\ ev' = HandledOn("add_category", NoSelection, name, ok,
                                out.err, "none", TRUE)
             /\ UNCHANGED repository_only

\* BookkeeperPresenter.add_subcategory, get_subcategory_info returning
\* (parent_id, name, ok), or (None, "", False) with nothing selected
AddSubcategory(parent_id, name, ok) ==
    IF \/ ~window.category_dialog
       \/ parent_id = NoSelection \/ ~ok \/ name.s = <<>>
    THEN ReturnsEarly("add_subcategory", parent_id,
                      IF parent_id = NoSelection THEN NoName ELSE name,
                      ok /\ parent_id # NoSelection)
    ELSE LET category == [pk |-> PyInt(0), name |-> name,
                          parent |-> PyInt(parent_id)]
             out == add_call(Rows(db, "Category"), "Category", category)
         IN  /\ out.ret <= MaxPk
             /\ db' = commit(db, "Category", out.rows)
             /\ window' = [window EXCEPT
                            !.categories = categories_dict(out.rows)]
             /\ ev' = HandledOn("add_subcategory", parent_id, name, ok,
                                out.err, "none", TRUE)
             /\ UNCHANGED repository_only

\* BookkeeperPresenter.edit_category, get_edit_info returning
\* (category_id, name, ok), or (None, "", False) with nothing selected
EditCategory(category_id, name, ok) ==
    IF \/ ~window.category_dialog
       \/ category_id = NoSelection \/ ~ok \/ name.s = <<>>
       \/ get(Rows(db, "Category"), "Category", category_id) = <<>>
    THEN ReturnsEarly("edit_category", category_id,
                      IF category_id = NoSelection THEN NoName ELSE name,
                      ok /\ category_id # NoSelection)
    ELSE LET category ==
                [get(Rows(db, "Category"), "Category", category_id)[1]
                    EXCEPT !.name = name]
             out == update_call(Rows(db, "Category"), "Category", category)
         IN  /\ db' = commit(db, "Category", out.rows)
             /\ window' = [window EXCEPT
                            !.categories = categories_dict(out.rows)]
             /\ ev' = HandledOn("edit_category", category_id, name, ok,
                                out.err, "none", TRUE)
             /\ UNCHANGED repository_only

\* BookkeeperPresenter.delete_category, get_delete_info returning
\* (category_id, ok), or (None, False) with nothing selected
DeleteCategory(category_id, ok) ==
    IF ~window.category_dialog \/ category_id = NoSelection \/ ~ok
    THEN ReturnsEarly("delete_category", category_id, NoName,
                      ok /\ category_id # NoSelection)
    ELSE LET first == delete_call(Rows(db, "Category"), "Category",
                                  category_id)
             subcategories ==
                get_all_where(first.rows, "Category",
                              [parent |-> PyInt(category_id)])
             out == IF first.err # "ok" THEN first
                    ELSE delete_each(first.rows, subcategories)
         IN  /\ db' = commit(db, "Category", out.rows)
             /\ window' = IF out.err = "ok"
                          THEN [window EXCEPT
                                  !.categories = categories_dict(out.rows)]
                          ELSE window
             /\ ev' = IF out.err = "ok"
                      THEN HandledOn("delete_category", category_id, NoName,
                                     ok, "ok", "none", TRUE)
                      ELSE IF catches(out.err)
                      THEN HandledOn("delete_category", category_id, NoName,
                                     ok, "ok", out.err, FALSE)
                      ELSE HandledOn("delete_category", category_id, NoName,
                                     ok, out.err, "none", FALSE)
             /\ UNCHANGED repository_only

\* another Repository on the file (simple_client, a second window) deletes
\* the category pk; the presenter's window is not told
RepositoryDelete(pk) ==
    LET out == delete_call(Rows(db, "Category"), "Category", pk)
    IN  /\ out.err = "ok"
        /\ db' = commit(db, "Category", out.rows)
        /\ ev' = HandledOn("repository.delete", pk, NoName, TRUE, "ok", "none",
                           FALSE)
        /\ UNCHANGED <<window, repository_only>>

\* the category tables of the files the presenter is constructed on: a
\* fresh file, and a file an earlier run left a category, its subcategory and
\* the subcategory of that one in
CategoryFiles ==
    {<<>>,
     [p \in {1, 2, 3} |->
        [name |-> PyStr(<<"a">>),
         parent |-> IF p = 1 THEN PyNone ELSE PyInt(p - 1),
         pk |-> PyInt(p)]]}

\* the presenter constructed on a file: load_data has pushed the categories
\* and the main window has no category dialog yet
CategoryInit ==
    /\ model_class = "Category"
    /\ table = <<>>
    /\ returned = {}
    /\ live = {}
    /\ conn = <<>>
    /\ \E t \in CategoryFiles :
        /\ db = commit(PresenterDb, "Category", t)
        /\ window = [category_dialog |-> FALSE,
                     categories |-> categories_dict(t)]
    /\ ev = HandledOn("init", NoSelection, NoName, TRUE, "ok", "none", TRUE)

CategoryNext ==
    \/ ShowCategoriesDialog
    \/ \E name \in Names, ok \in BOOLEAN : AddCategory(name, ok)
    \/ \E parent_id \in Selections, name \in Names, ok \in BOOLEAN :
            AddSubcategory(parent_id, name, ok)
    \/ \E category_id \in Selections, name \in NewNames, ok \in BOOLEAN :
            EditCategory(category_id, name, ok)
    \/ \E category_id \in Selections, ok \in BOOLEAN :
            DeleteCategory(category_id, ok)
    \/ \E pk \in DOMAIN Rows(db, "Category") : RepositoryDelete(pk)

SpecCategory == CategoryInit /\ [][CategoryNext]_vars

\* C18: delete_category on a category identifier that is no longer in the
\* repository surfaces no error to the user: the KeyError is caught, and no
\* row of the repository is changed.
C18_DeleteMissingCategoryIsSilent ==
    [][(/\ ev'.op = "delete_category"
        /\ ev'.ok
        /\ window.category_dialog
        /\ ev'.id \notin DOMAIN Rows(db, "Category"))
        => /\ ev'.err = "ok"
           /\ ev'.caught = "KeyError"
           /\ db' = db]_vars

\* delete_category has run on a category the tree still shows and the
\* repository no longer holds, other categories being stored
C18_Witness ==
    /\ ev.op = "delete_category"
    /\ ev.ok
    /\ ev.caught = "KeyError"
    /\ ev.id \in DOMAIN window.categories
    /\ ev.id \notin DOMAIN Rows(db, "Category")
    /\ DOMAIN Rows(db, "Category") # {}

(***************************************************************************)
(* The presenter's add_expense.  window holds kind, the class of the main  *)
(* window the presenter was constructed with (MainWindow of                *)
(* view/main_window.py, whose widgets are PyQt5's, or MockMainWindow of    *)
(* tests/test_presenter.py, whose widgets are MagicMock), the fields of    *)
(* the add expense form, and the expenses and spent amounts last pushed.   *)
(***************************************************************************)

WindowKinds == {"MainWindow", "MockMainWindow"}

\* the dollars the user sets the amount field to
AmountInputs == {0, 5}

\* the texts the user enters in the comment field
CommentInputs == {<<>>, <<"c">>}

\* datetime.now() as the default of Expense.added_date
AddedDate == PyDatetime(2, 5)

\* _update_spent_amounts: today, week_start and month_start
Today == PyDatetime(2, 0)

WeekStart == PyDatetime(1, 0)

MonthStart == PyDatetime(1, 0)

\* the categories a file holds when the presenter is constructed on it
StoredCategories ==
    {<<>>,
     [p \in {1, 2} |->
        [name |-> PyStr(<<IF p = 1 THEN "a" ELSE "b">>), parent |-> PyNone,
         pk |-> PyInt(p)]]}

\* update_category_combo: the pks in the order of the names
combo_items(t) ==
    IF DOMAIN t = {} THEN <<>> ELSE <<1, 2>>

\* QComboBox.currentData(): the data of the current item, None without items
currentData(combo) ==
    IF combo.items = <<>> THEN PyNone ELSE PyInt(combo.items[combo.index])

\* PyQt5's QDateTime has toPyDateTime() and no toPython(); a MagicMock has
\* every attribute
toPython_error(kind) ==
    IF kind = "MainWindow" THEN "AttributeError" ELSE "ok"

\* sum(e.amount for e in expenses if e.expense_date >= start)
RECURSIVE spent_since(_, _)
spent_since(expenses, start) ==
    IF expenses = <<>> THEN 0
    ELSE (IF datetime_lt(Head(expenses).expense_date, start) THEN 0
          ELSE Head(expenses).amount.n)
         + spent_since(Tail(expenses), start)

\* load_expenses: the expenses passed to set_expenses and the three amounts
\* passed to set_spent
load_expenses(t) ==
    [expenses |-> get_all(t, "Expense"),
     spent |-> <<spent_since(get_all(t, "Expense"), Today),
                 spent_since(get_all(t, "Expense"), WeekStart),
                 spent_since(get_all(t, "Expense"), MonthStart)>>]

\* AddExpenseWidget.clear_form
clear_form(w) ==
    [w EXCEPT !.amount_spin = 0, !.comment_edit = <<>>,
              !.category_combo.index = IF w.category_combo.items = <<>>
                                       THEN @ ELSE 1]

\* the user sets the amount field
SetAmount(value) ==
    /\ value # window.add_expense_widget.amount_spin
    /\ window' = [window EXCEPT !.add_expense_widget.amount_spin = value]
    /\ ev' = Handled("amount_spin.setValue", "ok", <<>>)
    /\ UNCHANGED <<db, repository_only>>

\* the user types the comment
SetComment(text) ==
    /\ text # window.add_expense_widget.comment_edit
    /\ window' = [window EXCEPT !.add_expense_widget.comment_edit = text]
    /\ ev' = Handled("comment_edit.setText", "ok", <<>>)
    /\ UNCHANGED <<db, repository_only>>

\* the user picks an item of the category combo box
SetCurrentIndex(i) ==
    /\ i \in 1..Len(window.add_expense_widget.category_combo.items)
    /\ i # window.add_expense_widget.category_combo.index
    /\ window' = [window EXCEPT !.add_expense_widget.category_combo.index = i]
    /\ ev' = Handled("category_combo.setCurrentIndex", "ok", <<>>)
    /\ UNCHANGED <<db, repository_only>>

\* BookkeeperPresenter.add_expense, with expense_date the value of the date
\* field
AddExpense(expense_date) ==
    LET w == window.add_expense_widget
        expense == [pk |-> PyInt(0),
                    amount |-> PyInt(w.amount_spin * 100),
                    category |-> currentData(w.category_combo),
                    expense_date |-> expense_date,
                    added_date |-> AddedDate,
                    comment |-> PyStr(w.comment_edit)]
        out == add_call(Rows(db, "Expense"), "Expense", expense)
    IN  IF toPython_error(window.kind) # "ok"
        THEN /\ ev' = Handled("add_expense", toPython_error(window.kind), <<>>)
             /\ UNCHANGED <<db, window, repository_only>>
        ELSE /\ out.ret <= MaxPk
             /\ db' = commit(db, "Expense", out.rows)
             /\ window' = [window EXCEPT
                            !.add_expense_widget = clear_form(@),
                            !.expenses = load_expenses(out.rows).expenses,
                            !.spent = load_expenses(out.rows).spent]
             /\ ev' = Handled("add_expense", out.err, load_expenses(out.rows))
             /\ UNCHANGED repository_only

\* the presenter constructed with either window on a file with or without
\* categories and without expenses: load_data has filled the combo box and
\* pushed no expenses
ExpenseInit ==
    /\ model_class = "Expense"
    /\ table = <<>>
    /\ returned = {}
    /\ live = {}
    /\ conn = <<>>
    /\ \E t \in StoredCategories, kind \in WindowKinds :
        /\ db = commit(PresenterDb, "Category", t)
        /\ window = [kind |-> kind,
                     add_expense_widget |->
                        [amount_spin |-> 0, comment_edit |-> <<>>,
                         category_combo |->
                            [items |-> combo_items(t), index |-> 1]],
                     expenses |-> <<>>,
                     spent |-> <<0, 0, 0>>]
    /\ ev = Handled("init", "ok", load_expenses(<<>>))

ExpenseNext ==
    \/ \E value \in AmountInputs : SetAmount(value)
    \/ \E text \in CommentInputs : SetComment(text)
    \/ \E i \in 1..2 : SetCurrentIndex(i)
    \/ \E expense_date \in Dates : AddExpense(expense_date)

SpecExpense == ExpenseInit /\ [][ExpenseNext]_vars

\* C19: each add_expense call of the presenter adds exactly one expense row,
\* whose amount is the amount field value times 100, whose category is the
\* selected category identifier and whose comment is the entered text;
\* afterwards the form is cleared and the expense list and spent amounts are
\* reloaded from the repository.
C19_AddExpenseAddsOneRow ==
    [][ev'.op = "add_expense"
        => LET t == Rows(db, "Expense")
               u == Rows(db', "Expense")
               w == window.add_expense_widget
           IN  /\ \A p \in DOMAIN t : p \in DOMAIN u /\ u[p] = t[p]
               /\ \E p \in DOMAIN u \ DOMAIN t :
                    /\ DOMAIN u = DOMAIN t \cup {p}
                    /\ u[p]["amount"] = PyInt(w.amount_spin * 100)
                    /\ u[p]["category"] = currentData(w.category_combo)
                    /\ u[p]["comment"] = PyStr(w.comment_edit)
               /\ window'.add_expense_widget.amount_spin = 0
               /\ window'.add_expense_widget.comment_edit = <<>>
               /\ window'.expenses = get_all(u, "Expense")
               /\ window'.spent = load_expenses(u).spent]_vars

\* C21: edit_category with a confirmed, non-empty new name changes only the
\* name of the selected category: its pk and parent, every other category
\* and the category count are unchanged; when the selected category is no
\* longer in the repository, or the input is cancelled or empty, nothing is
\* written.
C21_EditChangesOnlyName ==
    [][(ev'.op = "edit_category" /\ window.category_dialog)
        => LET t == Rows(db, "Category")
           IN  IF ev'.ok /\ ev'.name # NoName /\ ev'.id \in DOMAIN t
               THEN db' = [db EXCEPT
                            !["category"].rows =
                                [t EXCEPT ![ev'.id]["name"] = ev'.name]]
               ELSE db' = db]_vars

\* edit_category has renamed a subcategory, its parent keeping the old name
C21_Witness ==
    /\ ev.op = "edit_category"
    /\ ev.reloaded
    /\ ev.id \in DOMAIN Rows(db, "Category")
    /\ Rows(db, "Category")[ev.id]["name"] = PyStr(<<"b">>)
    /\ Rows(db, "Category")[ev.id]["parent"] # PyNone
    /\ \E p \in DOMAIN Rows(db, "Category") :
            Rows(db, "Category")[p]["name"] = PyStr(<<"a">>)

(***************************************************************************)
(* The budget widget on its own: set_budgets, set_spent, the three spin    *)
(* boxes and the period combo box, called in any order with any values.    *)
(***************************************************************************)

\* the cents set_budgets is called with
BudgetInputs == {0, 100, 150}

\* the cents set_spent is called with
SpentInputs == {0, 250}

\* the items of the period combo box
Periods == {"Daily", "Weekly", "Monthly"}

\* budget_widget.set_budgets(daily, weekly, monthly)
SetBudgets(daily, weekly, monthly) ==
    /\ window' = [window EXCEPT
                    !.budget_widget = set_budgets(@, daily, weekly, monthly)]
    /\ ev' = Handled("set_budgets", "ok", <<daily, weekly, monthly>>)
    /\ UNCHANGED <<db, repository_only>>

\* budget_widget.set_spent(daily_spent, weekly_spent, monthly_spent)
SetSpent(daily_spent, weekly_spent, monthly_spent) ==
    /\ window' = [window EXCEPT
                    !.budget_widget =
                        set_spent(@, daily_spent, weekly_spent, monthly_spent)]
    /\ ev' = Handled("set_spent", "ok",
                     <<daily_spent, weekly_spent, monthly_spent>>)
    /\ UNCHANGED <<db, repository_only>>

\* the user picks another period: currentIndexChanged runs update_status
PeriodChanged(period) ==
    /\ period # window.budget_widget.period_combo
    /\ window' = [window EXCEPT
                    !.budget_widget =
                        update_status([@ EXCEPT !.period_combo = period])]
    /\ ev' = Handled("period_combo.currentIndexChanged", "ok", <<>>)
    /\ UNCHANGED <<db, repository_only>>

\* a BudgetWidget just constructed
WidgetInit ==
    /\ model_class = "Budget"
    /\ table = <<>>
    /\ returned = {}
    /\ live = {}
    /\ conn = <<>>
    /\ db = <<>>
    /\ window = [budget_widget |-> BudgetWidget]
    /\ ev = Handled("init", "ok", <<>>)

WidgetNext ==
    \/ \E daily \in BudgetInputs, weekly \in BudgetInputs,
          monthly \in BudgetInputs : SetBudgets(daily, weekly, monthly)
    \/ \E daily_spent \in SpentInputs, weekly_spent \in SpentInputs,
          monthly_spent \in SpentInputs :
            SetSpent(daily_spent, weekly_spent, monthly_spent)
    \/ \E period \in Periods : PeriodChanged(period)
    \/ \E value \in SpinInputs.daily : OnDailyBudgetChanged(value)
    \/ \E value \in SpinInputs.weekly : OnWeeklyBudgetChanged(value)
    \/ \E value \in SpinInputs.monthly : OnMonthlyBudgetChanged(value)

SpecWidget == WidgetInit /\ [][WidgetNext]_vars

\* C22: after set_budgets(daily, weekly, monthly) returns, the value-changed
\* callbacks it triggers included, the widget's daily_budget, weekly_budget
\* and monthly_budget equal exactly the three values passed, for every
\* non-negative input and whatever the widget held before.
C22_SetBudgetsKeepsCents ==
    [][ev'.op = "set_budgets"
        => <<window'.budget_widget.daily_budget,
             window'.budget_widget.weekly_budget,
             window'.budget_widget.monthly_budget>> = ev'.pushed]_vars

\* the budget and the spent amount of the selected period, spent counting as
\* 0 before set_spent was ever called
SelectedAmounts ==
    LET bw == window.budget_widget
    IN  CASE bw.period_combo = "Daily" ->
                <<bw.daily_budget, IF bw.has_spent THEN bw.daily_spent ELSE 0>>
          [] bw.period_combo = "Weekly" ->
                <<bw.weekly_budget,
                  IF bw.has_spent THEN bw.weekly_spent ELSE 0>>
          [] bw.period_combo = "Monthly" ->
                <<bw.monthly_budget,
                  IF bw.has_spent THEN bw.monthly_spent ELSE 0>>

\* the cents a label shows
Shown(text) == text.dollars * 100 + text.hundredths

\* C23: after any sequence of set_budgets, set_spent, spin-box changes and
\* period changes, the displayed budget and spent are those of the selected
\* period and the displayed remaining amount is max(0, budget - spent) for
\* that period, never negative.
C23_StatusShowsSelectedPeriod ==
    LET bw == window.budget_widget
        budget == SelectedAmounts[1]
        spent == SelectedAmounts[2]
    IN  /\ Shown(bw.budget_label) = budget
        /\ Shown(bw.spent_label) = spent
        /\ Shown(bw.remaining_label) =
                (IF budget >= spent THEN budget - spent ELSE 0)
        /\ bw.remaining_label.dollars >= 0
        /\ bw.remaining_label.hundredths \in 0..99

\* the weekly period is selected with more spent than the weekly budget, the
\* daily budget and spent amounts being other values
C23_Witness ==
    LET bw == window.budget_widget
    IN  /\ bw.period_combo = "Weekly"
        /\ bw.has_spent
        /\ bw.weekly_spent > bw.weekly_budget
        /\ bw.weekly_budget > 0
        /\ bw.daily_spent # bw.weekly_spent
        /\ bw.daily_budget # bw.weekly_budget
        /\ ev.op = "period_combo.currentIndexChanged"

(***************************************************************************)
(* The expense list widget on its own: set_expenses called with any list   *)
(* of expenses and any mapping of categories, or without a mapping.        *)
(***************************************************************************)

\* the category references of the expenses passed: two ids and None
ExpenseCategories == {PyInt(1), PyInt(2), PyNone}

\* the expense with the given pk, category and amount
SampleExpense(pk, category, amount) ==
    [pk |-> PyInt(pk), amount |-> PyInt(amount), category |-> category,
     expense_date |-> PyDatetime(1, 0), added_date |-> AddedDate,
     comment |-> PyStr(<<"c">>)]

\* the lists of expenses passed to set_expenses: up to two expenses
ExpenseLists ==
    {<<>>}
    \cup {<<SampleExpense(1, c, a)>> :
            c \in ExpenseCategories, a \in {0, 150}}
    \cup {<<SampleExpense(1, c, a), SampleExpense(2, d, 0)>> :
            c \in ExpenseCategories, d \in ExpenseCategories,
            a \in {0, 150}}

\* the category with the given pk and name
SampleCategory(pk, name) ==
    [pk |-> PyInt(pk), name |-> PyStr(<<name>>), parent |-> PyNone]

\* the mappings passed to set_expenses: {}, one category, two categories
CategoryDicts ==
    {<<>>,
     [p \in {1} |-> SampleCategory(p, "a")],
     [p \in {1, 2} |-> SampleCategory(p, IF p = 1 THEN "b" ELSE "a")]}

\* the text of the category column when the mapping has no such category
Unknown == PyStr(<<"U", "n", "k", "n", "o", "w", "n">>)

\* "if categories_dict:": None and the empty dict are both false
truthy(supplied, mapping) == supplied /\ DOMAIN mapping # {}

\* ExpenseListWidget.update_table: the id, category and amount columns of
\* each row
update_table(expenses, categories) ==
    [i \in 1..Len(expenses) |->
        [id |-> expenses[i].pk.n,
         category |->
            IF /\ expenses[i].category.k = "int"
               /\ expenses[i].category.n \in DOMAIN categories
            THEN categories[expenses[i].category.n].name
            ELSE Unknown,
         amount |-> label_text(expenses[i].amount.n)]]

\* ExpenseListWidget.set_expenses(expenses, categories_dict), supplied
\* telling whether categories_dict was given, mapping its value
set_expenses(el, expenses, supplied, mapping) ==
    LET categories == IF truthy(supplied, mapping)
                      THEN mapping ELSE el.categories
    IN  [expenses |-> expenses, categories |-> categories,
         table |-> update_table(expenses, categories)]

\* expense_list.set_expenses(expenses, categories_dict)
SetExpenses(expenses, supplied, mapping) ==
    /\ window' = [window EXCEPT
                    !.expense_list =
                        set_expenses(@, expenses, supplied, mapping)]
    /\ ev' = Handled("set_expenses", "ok",
                     [expenses |-> expenses, supplied |-> supplied,
                      categories |-> mapping])
    /\ UNCHANGED <<db, repository_only>>

\* an ExpenseListWidget just constructed
ExpenseListInit ==
    /\ model_class = "Expense"
    /\ table = <<>>
    /\ returned = {}
    /\ live = {}
    /\ conn = <<>>
    /\ db = <<>>
    /\ window = [expense_list |->
                    [expenses |-> <<>>, categories |-> <<>>, table |-> <<>>]]
    /\ ev = Handled("init", "ok", <<>>)

ExpenseListNext ==
    \/ \E expenses \in ExpenseLists, mapping \in CategoryDicts :
            SetExpenses(expenses, TRUE, mapping)
    \/ \E expenses \in ExpenseLists : SetExpenses(expenses, FALSE, <<>>)

SpecExpenseList == ExpenseListInit /\ [][ExpenseListNext]_vars

\* C24: after set_expenses(expenses, categories) with a categories mapping
\* supplied, the widget's expenses are the list passed and its categories the
\* mapping passed, whatever it held before; each displayed row shows the name
\* of the expense's category from that mapping, or 'Unknown' when the
\* mapping has no such category.
C24_SetExpensesReplaces ==
    [][(ev'.op = "set_expenses" /\ ev'.pushed.supplied)
        => LET el == window'.expense_list
               expenses == ev'.pushed.expenses
               categories == ev'.pushed.categories
           IN  /\ el.expenses = expenses
               /\ el.categories = categories
               /\ Len(el.table) = Len(expenses)
               /\ \A i \in 1..Len(expenses) :
                    el.table[i].category =
                        IF /\ expenses[i].category # PyNone
                           /\ expenses[i].category.n \in DOMAIN categories
                        THEN categories[expenses[i].category.n].name
                        ELSE Unknown]_vars

\* the categories of the table t whose chain of parents leads to one of ids,
\* following at most n references, and ids themselves
RECURSIVE ChainLeadsTo(_, _, _)
ChainLeadsTo(t, ids, n) ==
    IF n = 0 THEN ids
    ELSE ChainLeadsTo(t,
                      ids \cup {p \in DOMAIN t :
                                    /\ t[p]["parent"] # PyNone
                                    /\ t[p]["parent"].n \in ids},
                      n - 1)

\* C25: after a confirmed delete_category of category c the repository holds
\* neither c nor any subcategory of c: no remaining category has a chain of
\* parents that led to c, at any depth.
C25_DeleteCategoryTakesSubtree ==
    [][(ev'.op = "delete_category" /\ ev'.reloaded)
        => LET t == Rows(db, "Category")
               u == Rows(db', "Category")
           IN  DOMAIN u \cap
                ChainLeadsTo(t, {ev'.id}, Cardinality(DOMAIN t)) = {}]_vars

\* C27: get_all with a filter whose given value is None for an optional
\* attribute, {'parent': None}, returns exactly the rows whose stored value
\* for that attribute is null, the root categories.
C27_NullFilterFindsNullRows ==
    (/\ model_class = "Category"
     /\ ev.op = "get_all" /\ ev.filtered
     /\ ev.where = [parent |-> PyNone])
        => /\ ev.err = "ok"
           /\ PksOf(ev.res) = {p \in DOMAIN table : table[p]["parent"] = PyNone}
           /\ Len(ev.res) = Cardinality(PksOf(ev.res))

\* C29: when two Repository instances on one file each call delete(x) for
\* the same stored row, their existence checks and DELETE statements
\* interleaved in any order, one call succeeds and the other fails with
\* KeyError: a delete never returns successfully without having removed a
\* row.
C29_DeleteReturnsOnlyAfterRemoving ==
    [][\A r \in Repos :
        (/\ conn[r].pc = "checked"
         /\ conn'[r].pc = "idle"
         /\ ev'.op = "delete" /\ ev'.repo = r /\ ev'.err = "ok")
            => /\ conn[r].pk \in DOMAIN Rows(db, conn[r].mc)
               /\ conn[r].pk \notin DOMAIN Rows(db', conn[r].mc)]_vars

\* C30: after a presenter operation on categories (add_category,
\* add_subcategory, edit_category, delete_category) that the user confirmed
\* returns, the category mapping last pushed to the main window is the
\* repository's current categories keyed by pk, one entry per stored
\* category; also when delete_category finds the category already gone.
C30_PushedCategoriesAreCurrent ==
    [][(/\ ev'.op \in {"add_category", "add_subcategory", "edit_category",
                       "delete_category"}
        /\ window.category_dialog
        /\ ev'.ok
        /\ ev'.op = "delete_category" \/ ev'.name # NoName)
        => LET u == Rows(db', "Category")
           IN  window'.categories =
                [p \in DOMAIN u |-> row_to_object("Category", u[p])]]_vars

(***************************************************************************)
(* The application as run_app starts it: MainWindow(), then                *)
(* BookkeeperPresenter(db_path, window), then clicks.  window.connections  *)
(* holds, for each clicked signal, the slots connected to it in the order  *)
(* of their connection; a click runs them in that order.                   *)
(***************************************************************************)

\* the slots the widgets connect their own buttons to in init_ui; the
\* buttons of the category dialog exist once the dialog does
init_ui_connections ==
    [add_expense |-> <<"AddExpenseWidget.add_expense">>,
     add_category |-> <<"CategoryWidget.add_category">>,
     add_subcategory |-> <<"CategoryWidget.add_subcategory">>,
     edit_category |-> <<"CategoryWidget.edit_category">>,
     delete_category |-> <<"CategoryWidget.delete_category">>]

\* _connect_signals: add_expense is connected to the add button; the four
\* category slots are connected only when main_window.category_dialog exists
\* at that moment
connect_signals(connections, category_dialog) ==
    [b \in DOMAIN connections |->
        IF b = "add_expense" \/ category_dialog
        THEN Append(connections[b], "BookkeeperPresenter." \o b)
        ELSE connections[b]]

\* the slot is connected to the clicked signal of the button
connected(button, slot) ==
    \E i \in 1..Len(window.connections[button]) :
        window.connections[button][i] = slot

\* a click on a button of the category dialog that only the widget's own
\* slot handles: it asks for the input and does nothing with it
WidgetOnly(slot, id, name, ok) ==
    /\ ev' = HandledOn(slot, id, name, ok, "ok", "none", FALSE)
    /\ UNCHANGED <<db, window, repository_only>>

\* a click on Add Expense: AddExpenseWidget.add_expense shows the warning
\* when the combo box is empty and returns; then the presenter's slot runs
ClickAddExpense(expense_date) ==
    /\ connected("add_expense", "AddExpenseWidget.add_expense")
    /\ connected("add_expense", "BookkeeperPresenter.add_expense")
    /\ AddExpense(expense_date)

\* a click on Add Category in the category dialog
ClickAddCategory(name, ok) ==
    /\ window.category_dialog
    /\ IF connected("add_category", "BookkeeperPresenter.add_category")
       THEN AddCategory(name, ok)
       ELSE WidgetOnly("CategoryWidget.add_category", NoSelection, name, ok)

\* a click on Add Subcategory in the category dialog
ClickAddSubcategory(parent_id, name, ok) ==
    /\ window.category_dialog
    /\ IF connected("add_subcategory", "BookkeeperPresenter.add_subcategory")
       THEN AddSubcategory(parent_id, name, ok)
       ELSE WidgetOnly("CategoryWidget.add_subcategory", parent_id,
                       IF parent_id = NoSelection THEN NoName ELSE name,
                       ok /\ parent_id # NoSelection)

\* a click on Edit in the category dialog
ClickEditCategory(category_id, name, ok) ==
    /\ window.category_dialog
    /\ IF connected("edit_category", "BookkeeperPresenter.edit_category")
       THEN EditCategory(category_id, name, ok)
       ELSE WidgetOnly("CategoryWidget.edit_category", category_id,
                       IF category_id = NoSelection THEN NoName ELSE name,
                       ok /\ category_id # NoSelection)

\* a click on Delete in the category dialog
ClickDeleteCategory(category_id, ok) ==
    /\ window.category_dialog
    /\ IF connected("delete_category", "BookkeeperPresenter.delete_category")
       THEN DeleteCategory(category_id, ok)
       ELSE WidgetOnly("CategoryWidget.delete_category", category_id, NoName,
                       ok /\ category_id # NoSelection)

\* run_app on a file with or without categories: the main window is created
\* without a category dialog, the presenter connects the signals and loads
\* the data
AppInit ==
    /\ model_class = "Category"
    /\ table = <<>>
    /\ returned = {}
    /\ live = {}
    /\ conn = <<>>
    /\ \E t \in StoredCategories :
        /\ db = commit(PresenterDb, "Category", t)
        /\ window = [kind |-> "MainWindow",
                     category_dialog |-> FALSE,
                     connections |->
                        connect_signals(init_ui_connections, FALSE),
                     categories |-> categories_dict(t),
                     add_expense_widget |->
                        [amount_spin |-> 0, comment_edit |-> <<>>,
                         category_combo |->
                            [items |-> combo_items(t), index |-> 1]],
                     expenses |-> <<>>,
                     spent |-> <<0, 0, 0>>]
    /\ ev = Handled("init", "ok", load_expenses(<<>>))

AppNext ==
    \/ \E value \in AmountInputs : SetAmount(value)
    \/ \E text \in CommentInputs : SetComment(text)
    \/ \E i \in 1..2 : SetCurrentIndex(i)
    \/ ShowCategoriesDialog
    \/ \E expense_date \in Dates : ClickAddExpense(expense_date)
    \/ \E name \in Names, ok \in BOOLEAN : ClickAddCategory(name, ok)
    \/ \E parent_id \in Selections, name \in Names, ok \in BOOLEAN :
            ClickAddSubcategory(parent_id, name, ok)
    \/ \E category_id \in Selections, name \in NewNames, ok \in BOOLEAN :
            ClickEditCategory(category_id, name, ok)
    \/ \E category_id \in Selections, ok \in BOOLEAN :
            ClickDeleteCategory(category_id, ok)

SpecApp == AppInit /\ [][AppNext]_vars

\* the names a click on a button of the category dialog is recorded under:
\* the presenter's handler when it ran, the widget's own slot otherwise
CategoryClicks ==
    {"add_category", "add_subcategory", "edit_category", "delete_category",
     "CategoryWidget.add_category", "CategoryWidget.add_subcategory",
     "CategoryWidget.edit_category", "CategoryWidget.delete_category"}

\* C26: in the application as run_app starts it, with the category dialog
\* opened on demand, a confirmed click on Add Category, Add Subcategory,
\* Edit or Delete in the category dialog is handled by the presenter, whose
\* handler runs the add, update or delete on the category repository and
\* reloads the categories.
C26_CategoryClicksReachPresenter ==
    [][(/\ ev'.op \in CategoryClicks
        /\ ev'.ok
        /\ ev'.name # NoName
            \/ ev'.op \in {"delete_category", "CategoryWidget.delete_category"})
        => /\ ev'.op \in {"add_category", "add_subcategory", "edit_category",
                          "delete_category"}
           /\ ev'.reloaded]_vars

\* C28: when no categories are available, the category selector being
\* empty, a click on Add Expense only shows the warning: no exception, and
\* no expense row is added to the repository.
C28_NoCategoryNoExpense ==
    [][(/\ ev'.op = "add_expense"
        /\ window.add_expense_widget.category_combo.items = <<>>)
        => /\ ev'.err = "ok"
           /\ db' = db]_vars

====
